---------------------------- MODULE Spec2Model ----------------------------
(***************************************************************************)
(* Model of the VDF prover/verifier of proof_of_proximity (src/vdf/mod.rs). *)
(*                                                                         *)
(* One session: the caller thread holds the Sender of the cap channel and  *)
(* the Receiver of the proof channel; the worker thread spawned by         *)
(* run_vdf_worker squares, checks the upper bound, polls the cap channel,  *)
(* builds the proof and sends it.  Big integers are unbounded integers;    *)
(* usize::MAX and the 128-bit generated primes are scaled down.            *)
(***************************************************************************)
EXTENDS Integers, Sequences, FiniteSets, TLC

VARIABLES
    vdf,          \* the VDF options struct moved into the worker (self)
    result,       \* worker local: result
    iterations,   \* worker local: iterations
    pc,           \* worker position: "loop", "check", "send", "done", "halted"
    pending,      \* the message the worker is about to send
    capSource,    \* where the cap the worker finalizes with came from
    usedCap,      \* the cap the worker finalizes with (self_cap / cap)
    capChan,      \* channel caller_sender -> worker_receiver
    out,          \* channel worker_sender -> caller_receiver
    emitted,      \* every message the worker handed to worker_sender.send
    logged,       \* error! lines written by the worker
    polls,        \* number of try_recv calls made by the worker
    txAlive,      \* the caller still holds caller_sender
    rxAlive,      \* the caller still holds caller_receiver
    capsSent,     \* number of caller_sender.send calls
    sendFailed,   \* a caller_sender.send returned Err (worker_receiver gone)
    received,     \* the proof (or error) the caller holds
    verdict,      \* outcome of VDFProof::verify on the received proof
    call,         \* a library call made by the caller's side, and its outcome
    handler       \* the PingHandler of one connection, with what its last poll returned

vars == <<vdf, result, iterations, pc, pending, capSource, usedCap, capChan, out,
          emitted, logged, polls, txAlive, rxAlive, capsSent, sendFailed,
          received, verdict, call, handler>>

workerVars == <<result, iterations, pc, pending, capSource, usedCap, emitted, logged,
                polls>>
callerVars == <<txAlive, rxAlive, capsSent, sendFailed, received, verdict, call>>

---------------------------------------------------------------------------
(* Bounds of the model *)

\* largest upper_bound a session is built with
MaxUpper == 3
\* stand-in for usize::MAX (2^64 - 1): the counter value of the second guard
USIZE_MAX == 5
\* bases are drawn from 1 .. MaxBase
MaxBase == 3
\* number of caps the caller may push on cap_in
MaxCapSends == 1

\* RSA moduli of the sessions (products of two primes)
Moduli == {21, 35}
\* values a peer may send as a cap, or with_cap may install (0: none installed)
CapValues == {0, 1, 5, 7, 9, 11, 13}

---------------------------------------------------------------------------
(* Arithmetic facade *)

\* Int::pow_mod
RECURSIVE PowMod(_, _, _)
PowMod(b, e, m) == IF e = 0 THEN 1 % m ELSE (b * PowMod(b, e - 1, m)) % m

\* Int::gcd
RECURSIVE Gcd(_, _)
Gcd(a, b) == IF b = 0 THEN a ELSE Gcd(b, a % b)

IsPrime(n) == n >= 2 /\ \A d \in 2..(n - 1) : n % d # 0

\* Verification::verify_safe_prime: p is prime and (p - 1) / 2 is prime
IsSafePrime(p) == IsPrime(p) /\ IsPrime((p - 1) \div 2)

\* Generator::new_safe_prime: some safe prime
GeneratedPrimes == {p \in CapValues : IsSafePrime(p)}

---------------------------------------------------------------------------
(* Messages on the proof channel: Result<VDFProof, InvalidCapError> *)

NoMsg == [kind |-> "None"]
\* no library call has been made
NoCall == [op |-> "none"]

\* PingHandler::new(config), not polled yet: ret is what the last poll returned, error
\* the failure it carried, run the failures raised since the last successful ping
PingHandlerNew == [failures |-> 0, pending_errors |-> <<>>, outbound |-> "None",
                   inbound |-> "None", ret |-> "none", error |-> "none", run |-> 0]

InvalidCapError == [kind |-> "InvalidCap"]

\* one round of the loop with the last reduction (proof %= modulus) left out
ProofStepUnreduced(modulus, base, capv, prev) ==
    LET b == (2 * prev[2]) \div capv
        r == (2 * prev[2]) % capv
        p == PowMod(prev[1], 2, modulus) * PowMod(base, b, modulus)
    IN  <<p, r, b>>

\* one round of the loop with b taken from r before it is doubled
ProofStepStaleQuotient(modulus, base, capv, prev) ==
    LET b == prev[2] \div capv
        r == (2 * prev[2]) % capv
        p == (PowMod(prev[1], 2, modulus) * PowMod(base, b, modulus)) % modulus
    IN  <<p, r, b>>

\* the step with the remainder left unreduced
ProofStepNoRemainder(modulus, base, capv, prev) ==
    LET b == (2 * prev[2]) \div capv
        r == 2 * prev[2]
        p == (PowMod(prev[1], 2, modulus) * PowMod(base, b, modulus)) % modulus
    IN  <<p, r, b>>

\* one round of the loop of VDFProof::new: <<proof, r, b>> from the previous <<proof, r>>
ProofStep(modulus, base, capv, prev) ==
    LET b == (2 * prev[2]) \div capv
        r == (2 * prev[2]) % capv
        p == (PowMod(prev[1], 2, modulus) * PowMod(base, b, modulus)) % modulus
    IN  <<p, r, b>>

\* the loop of VDFProof::new: <<proof, r>> after n rounds
RECURSIVE ProofLoop(_, _, _, _)
ProofLoop(modulus, base, capv, n) ==
    IF n = 0 THEN <<1, 1>>
    ELSE CHOOSE next \in
             { <<ProofStep(modulus, base, capv, prev)[1],
                 ProofStep(modulus, base, capv, prev)[2]>> :
                   prev \in {ProofLoop(modulus, base, capv, n - 1)} } : TRUE

\* VDFProof::new
VDFProofNew(modulus, base, res, capv) ==
    [kind |-> "Proof",
     modulus |-> modulus,
     base |-> base,
     output |-> res,
     cap |-> capv,
     proof |-> ProofLoop(modulus, base, capv, res.iterations)[1]]

\* verify with the two exponents exchanged
VerifySwappedExponents(p) ==
    IF p.proof > p.modulus THEN "false"
    ELSE IF p.cap = 0 \/ p.modulus = 0 THEN "panic"
    ELSE LET r == PowMod(p.output.iterations, 2, p.cap)
         IN  IF p.output.result
                  = (PowMod(p.proof, r, p.modulus) * PowMod(p.base, p.cap, p.modulus))
                        % p.modulus
             THEN "true" ELSE "false"

\* VDFProof::verify: "true", "false", or "panic" (a reduction modulo zero)
Verify(p) ==
    IF p.proof > p.modulus THEN "false"
    ELSE IF p.cap = 0 \/ p.modulus = 0 THEN "panic"
    ELSE LET r == PowMod(p.output.iterations, 2, p.cap)
         IN  IF p.output.result
                  = (PowMod(p.proof, p.cap, p.modulus) * PowMod(p.base, r, p.modulus))
                        % p.modulus
             THEN "true" ELSE "false"

\* validate with the test of the cap left out
ValidateBaseOnly(p) == Gcd(p.modulus, p.base) = 1

\* VDFProof::validate
Validate(p) == Gcd(p.modulus, p.base) = 1 /\ Gcd(p.modulus, p.cap) = 1

---------------------------------------------------------------------------
(* The session *)

\* VDF::new(modulus, base, upper_bound) followed by an optional with_cap
Sessions ==
    [modulus : Moduli, base : 1..MaxBase, upper_bound : 0..MaxUpper, cap : CapValues]

\* state right after run_vdf_worker has spawned the thread
Init ==
    /\ vdf \in Sessions
    /\ result = vdf.base
    /\ iterations = 0
    /\ pc = "loop"
    /\ pending = NoMsg
    /\ capSource = "none"
    /\ usedCap = 0
    /\ capChan = <<>>
    /\ out = <<>>
    /\ emitted = <<>>
    /\ logged = FALSE
    /\ polls = 0
    /\ txAlive = TRUE
    /\ rxAlive = TRUE
    /\ capsSent = 0
    /\ sendFailed = FALSE
    /\ received = NoMsg
    /\ verdict = "none"
    /\ handler = PingHandlerNew
    /\ call = NoCall

\* the counter incremented with the squaring left out
SquareCounterOnly ==
    /\ pc = "loop"
    /\ result' = result
    /\ iterations' = iterations + 1
    /\ pc' = "check"
    /\ UNCHANGED <<vdf, pending, capSource, usedCap, capChan, out, emitted, logged,
                   polls>>
    /\ UNCHANGED <<callerVars, handler>>

\* result = result.pow_mod(2, modulus); iterations += 1
Square ==
    /\ pc = "loop"
    /\ result' = PowMod(result, 2, vdf.modulus)
    /\ iterations' = iterations + 1
    /\ pc' = "check"
    /\ UNCHANGED <<vdf, pending, capSource, usedCap, capChan, out, emitted, logged,
                   polls>>
    /\ UNCHANGED <<callerVars, handler>>

\* the condition compared one iteration late
AtUpperBoundOffByOne ==
    iterations = vdf.upper_bound + 1 \/ iterations = USIZE_MAX

\* the condition of the first branch
AtUpperBound ==
    iterations = vdf.upper_bound \/ iterations = USIZE_MAX

\* the result paired with the count of the iteration before
CurrentResultOffByOne == [result |-> result, iterations |-> iterations - 1]

\* VDFResult { result, iterations }
CurrentResult == [result |-> result, iterations |-> iterations]

\* the cap tested with verify_prime in place of verify_safe_prime
CapMessagePrimeOnly(c) ==
    IF IsPrime(c)
    THEN VDFProofNew(vdf.modulus, vdf.base, CurrentResult, c)
    ELSE InvalidCapError

\* the message built from a cap: the safe-prime test, then the proof or the error
CapMessage(c) ==
    IF IsSafePrime(c)
    THEN VDFProofNew(vdf.modulus, vdf.base, CurrentResult, c)
    ELSE InvalidCapError

\* the upper-bound branch without the test of the preinstalled cap
UpperBoundReachedNoCheck ==
    /\ pc = "check"
    /\ AtUpperBound
    /\ \/ /\ vdf.cap = 0
          /\ \E c \in GeneratedPrimes :
                /\ usedCap' = c
                /\ pending' = VDFProofNew(vdf.modulus, vdf.base, CurrentResult, c)
          /\ capSource' = "generated"
       \/ /\ vdf.cap # 0
          /\ usedCap' = vdf.cap
          /\ pending' = VDFProofNew(vdf.modulus, vdf.base, CurrentResult, vdf.cap)
          /\ capSource' = "preinstalled"
    /\ pc' = "send"
    /\ UNCHANGED <<vdf, result, iterations, capChan, out, emitted, logged, polls>>
    /\ UNCHANGED <<callerVars, handler>>

\* the upper-bound branch without the generation of a cap: the default 0 is tested
UpperBoundReachedNoGenerate ==
    /\ pc = "check"
    /\ AtUpperBound
    /\ usedCap' = vdf.cap
    /\ pending' = CapMessage(vdf.cap)
    /\ capSource' = "preinstalled"
    /\ pc' = "send"
    /\ UNCHANGED <<vdf, result, iterations, capChan, out, emitted, logged, polls>>
    /\ UNCHANGED <<callerVars, handler>>

\* upper bound reached: use the preinstalled cap, or generate one when it is 0
UpperBoundReached ==
    /\ pc = "check"
    /\ AtUpperBound
    /\ \/ /\ vdf.cap = 0
          /\ \E c \in GeneratedPrimes :
                /\ usedCap' = c
                /\ pending' = VDFProofNew(vdf.modulus, vdf.base, CurrentResult, c)
          /\ capSource' = "generated"
       \/ /\ vdf.cap # 0
          /\ usedCap' = vdf.cap
          /\ pending' = CapMessage(vdf.cap)
          /\ capSource' = "preinstalled"
    /\ pc' = "send"
    /\ UNCHANGED <<vdf, result, iterations, capChan, out, emitted, logged, polls>>
    /\ UNCHANGED <<callerVars, handler>>

\* worker_receiver.try_recv() returned a cap
PollCapReceived ==
    /\ pc = "check"
    /\ ~AtUpperBound
    /\ capChan # <<>>
    /\ usedCap' = Head(capChan)
    /\ pending' = CapMessage(Head(capChan))
    /\ capSource' = "received"
    /\ capChan' = Tail(capChan)
    /\ polls' = polls + 1
    /\ pc' = "send"
    /\ UNCHANGED <<vdf, result, iterations, out, emitted, logged>>
    /\ UNCHANGED <<callerVars, handler>>

\* the continue taken without a look at the channel
PollCapSkipped ==
    /\ pc = "check"
    /\ ~AtUpperBound
    /\ polls' = polls + 1
    /\ pc' = "loop"
    /\ UNCHANGED <<vdf, result, iterations, pending, capSource, usedCap, capChan, out,
                   emitted, logged>>
    /\ UNCHANGED <<callerVars, handler>>

\* worker_receiver.try_recv() returned Err (empty or disconnected): continue
PollCapEmpty ==
    /\ pc = "check"
    /\ ~AtUpperBound
    /\ capChan = <<>>
    /\ polls' = polls + 1
    /\ pc' = "loop"
    /\ UNCHANGED <<vdf, result, iterations, pending, capSource, usedCap, capChan, out,
                   emitted, logged>>
    /\ UNCHANGED <<callerVars, handler>>

\* the send without the break that follows it
WorkerSendNoBreak ==
    /\ pc = "send"
    /\ emitted' = Append(emitted, pending)
    /\ IF rxAlive
       THEN out' = Append(out, pending) /\ logged' = logged
       ELSE out' = out /\ logged' = TRUE
    /\ pc' = "loop"
    /\ UNCHANGED <<vdf, result, iterations, pending, capSource, usedCap, capChan, polls>>
    /\ UNCHANGED <<callerVars, handler>>

\* the send unwrapped: the thread panics when the receiver is gone
WorkerSendUnwrap ==
    /\ pc = "send"
    /\ emitted' = Append(emitted, pending)
    /\ IF rxAlive
       THEN out' = Append(out, pending) /\ pc' = "done"
       ELSE out' = out /\ pc' = "panicked"
    /\ UNCHANGED <<vdf, result, iterations, pending, capSource, usedCap, capChan, logged,
                   polls>>
    /\ UNCHANGED <<callerVars, handler>>

\* worker_sender.send(..), an error! line when the receiver is gone; break
WorkerSend ==
    /\ pc = "send"
    /\ emitted' = Append(emitted, pending)
    /\ IF rxAlive
       THEN out' = Append(out, pending) /\ logged' = logged
       ELSE out' = out /\ logged' = TRUE
    /\ pc' = "done"
    /\ UNCHANGED <<vdf, result, iterations, pending, capSource, usedCap, capChan, polls>>
    /\ UNCHANGED <<callerVars, handler>>

\* the closure returns: the thread ends and drops worker_receiver and worker_sender
WorkerExit ==
    /\ pc = "done"
    /\ pc' = "halted"
    /\ UNCHANGED <<vdf, result, iterations, pending, capSource, usedCap, capChan, out,
                   emitted, logged, polls>>
    /\ UNCHANGED <<callerVars, handler>>

WorkerNext ==
    \/ Square
    \/ UpperBoundReached
    \/ PollCapReceived
    \/ PollCapEmpty
    \/ WorkerSend
    \/ WorkerExit

\* caller_sender.send(cap)
CallerSend(c) ==
    /\ txAlive
    /\ capsSent < MaxCapSends
    /\ capsSent' = capsSent + 1
    /\ IF pc # "halted"
       THEN capChan' = Append(capChan, c) /\ sendFailed' = sendFailed
       ELSE capChan' = capChan /\ sendFailed' = TRUE
    /\ UNCHANGED <<vdf, out, txAlive, rxAlive, received, verdict, call>>
    /\ UNCHANGED <<workerVars, handler>>

\* the caller drops caller_sender
CallerDropSender ==
    /\ txAlive
    /\ txAlive' = FALSE
    /\ UNCHANGED <<vdf, capChan, out, rxAlive, capsSent, sendFailed, received, verdict,
                   call>>
    /\ UNCHANGED <<workerVars, handler>>

\* the caller drops caller_receiver
CallerDropReceiver ==
    /\ rxAlive
    /\ rxAlive' = FALSE
    /\ UNCHANGED <<vdf, capChan, out, txAlive, capsSent, sendFailed, received, verdict,
                   call>>
    /\ UNCHANGED <<workerVars, handler>>

\* caller_receiver.recv() returned a message
CallerRecv ==
    /\ rxAlive
    /\ out # <<>>
    /\ received' = Head(out)
    /\ out' = Tail(out)
    /\ UNCHANGED <<vdf, capChan, txAlive, rxAlive, capsSent, sendFailed, verdict, call>>
    /\ UNCHANGED <<workerVars, handler>>

\* proof.verify() on the proof the caller holds
CallerVerify ==
    /\ received.kind = "Proof"
    /\ verdict = "none"
    /\ verdict' = Verify(received)
    /\ UNCHANGED <<vdf, capChan, out, txAlive, rxAlive, capsSent, sendFailed, received,
                   call>>
    /\ UNCHANGED <<workerVars, handler>>

CallerNext ==
    \/ \E c \in CapValues : CallerSend(c)
    \/ CallerDropSender
    \/ CallerDropReceiver
    \/ CallerRecv
    \/ CallerVerify

Next == WorkerNext \/ CallerNext

Spec == Init /\ [][Next]_vars

\* the sessions built by VDF::new alone: no cap installed
NoCapInstalledInit == Init /\ vdf.cap = 0

\* those sessions with the worker on its dedicated OS thread: it keeps running
FairSpec == NoCapInstalledInit /\ [][Next]_vars /\ WF_vars(WorkerNext)

---------------------------------------------------------------------------
(* The verifier on an arbitrary proof: a peer hands the caller any VDFProof *)

\* proofs with positive modulus and cap; proof and result range up to modulus + 1
ArbitraryProofs ==
    UNION {
        [kind : {"Proof"},
         modulus : {n},
         base : 1..MaxBase,
         output : [result : 0..(n + 1), iterations : 0..MaxUpper],
         cap : CapValues \ {0},
         proof : 0..(n + 1)] : n \in Moduli }

\* no worker runs; the caller holds a proof received from a peer
VerifyInit ==
    /\ received \in ArbitraryProofs
    /\ vdf = [modulus |-> received.modulus, base |-> received.base,
              upper_bound |-> 0, cap |-> 0]
    /\ result = 0
    /\ iterations = 0
    /\ pc = "halted"
    /\ pending = NoMsg
    /\ capSource = "none"
    /\ usedCap = 0
    /\ capChan = <<>>
    /\ out = <<>>
    /\ emitted = <<>>
    /\ logged = FALSE
    /\ polls = 0
    /\ txAlive = FALSE
    /\ rxAlive = FALSE
    /\ capsSent = 0
    /\ sendFailed = FALSE
    /\ verdict = "none"
    /\ handler = PingHandlerNew
    /\ call = NoCall

VerifySpec == VerifyInit /\ [][CallerVerify]_vars

\* the caller holds a proof of the set S; no worker runs
HeldProofInit(S) ==
    /\ received \in S
    /\ vdf = [modulus |-> received.modulus, base |-> received.base,
              upper_bound |-> 0, cap |-> 0]
    /\ result = 0
    /\ iterations = 0
    /\ pc = "halted"
    /\ pending = NoMsg
    /\ capSource = "none"
    /\ usedCap = 0
    /\ capChan = <<>>
    /\ out = <<>>
    /\ emitted = <<>>
    /\ logged = FALSE
    /\ polls = 0
    /\ txAlive = FALSE
    /\ rxAlive = FALSE
    /\ capsSent = 0
    /\ sendFailed = FALSE
    /\ verdict = "none"
    /\ handler = PingHandlerNew
    /\ call = NoCall

\* proofs in which the modulus, the base or the cap is zero
ZeroFieldProofs ==
    { p \in UNION {
          [kind : {"Proof"},
           modulus : {n},
           base : 0..MaxBase,
           output : [result : 0..(n + 1), iterations : 0..MaxUpper],
           cap : CapValues,
           proof : 0..(n + 1)] : n \in Moduli \cup {0} } :
        p.modulus = 0 \/ p.base = 0 \/ p.cap = 0 }

ZeroFieldInit == HeldProofInit(ZeroFieldProofs)

\* the verifier on the proofs with a zero field
ZeroFieldSpec == ZeroFieldInit /\ [][CallerVerify]_vars

\* the arguments of a direct call of VDFProof::new
NewModuli == Moduli \cup {2}
NewCaps == (CapValues \ {0, 1}) \cup {2, 3, 4}
NewCalls ==
    [op : {"new"}, modulus : NewModuli, base : 0..MaxBase,
     output : [result : 0..1, iterations : 0..USIZE_MAX], cap : NewCaps,
     i : {0}, proof : {1}, r : {1}, b : {0}]

\* VDFProof::new has been called and stands before its loop
NewInit ==
    /\ handler = PingHandlerNew
    /\ call \in NewCalls
    /\ received = NoMsg
    /\ vdf = [modulus |-> call.modulus, base |-> call.base,
              upper_bound |-> 0, cap |-> 0]
    /\ result = 0
    /\ iterations = 0
    /\ pc = "halted"
    /\ pending = NoMsg
    /\ capSource = "none"
    /\ usedCap = 0
    /\ capChan = <<>>
    /\ out = <<>>
    /\ emitted = <<>>
    /\ logged = FALSE
    /\ polls = 0
    /\ txAlive = FALSE
    /\ rxAlive = FALSE
    /\ capsSent = 0
    /\ sendFailed = FALSE
    /\ verdict = "none"

\* one pass of the loop of VDFProof::new
NewStep ==
    /\ call.op = "new"
    /\ call.i < call.output.iterations
    /\ LET next == ProofStep(call.modulus, call.base, call.cap, <<call.proof, call.r>>)
       IN  call' = [call EXCEPT !.i = @ + 1, !.proof = next[1], !.r = next[2],
                                !.b = next[3]]
    /\ UNCHANGED <<vdf, capChan, out, txAlive, rxAlive, capsSent, sendFailed, received,
                   verdict>>
    /\ UNCHANGED <<workerVars, handler>>

\* the loop is over: VDFProof::new returns the proof
NewReturn ==
    /\ call.op = "new"
    /\ call.i = call.output.iterations
    /\ received' = [kind |-> "Proof", modulus |-> call.modulus, base |-> call.base,
                    output |-> call.output, cap |-> call.cap, proof |-> call.proof]
    /\ call' = [call EXCEPT !.op = "returned"]
    /\ UNCHANGED <<vdf, capChan, out, txAlive, rxAlive, capsSent, sendFailed, verdict>>
    /\ UNCHANGED <<workerVars, handler>>

NewSpec == NewInit /\ [][NewStep \/ NewReturn]_vars

\* Generator::new_prime: a prime, safe or not
NewPrimes == {p \in CapValues : IsPrime(p)}

\* estimate_upper_bound has drawn its cap and spawned the worker on a clone of the session
EstimateInit ==
    /\ vdf \in Sessions
    /\ handler = PingHandlerNew
    /\ call \in [op : {"estimate"}, stage : {"sleep"}, cap : NewPrimes,
                 upper_bound : {vdf.upper_bound}]
    /\ result = vdf.base
    /\ iterations = 0
    /\ pc = "loop"
    /\ pending = NoMsg
    /\ capSource = "none"
    /\ usedCap = 0
    /\ capChan = <<>>
    /\ out = <<>>
    /\ emitted = <<>>
    /\ logged = FALSE
    /\ polls = 0
    /\ txAlive = TRUE
    /\ rxAlive = TRUE
    /\ capsSent = 0
    /\ sendFailed = FALSE
    /\ received = NoMsg
    /\ verdict = "none"

\* the sleep is over: capper.send(cap).unwrap()
EstimateSend ==
    /\ call.op = "estimate"
    /\ call.stage = "sleep"
    /\ capsSent' = capsSent + 1
    /\ IF pc # "halted"
       THEN /\ capChan' = Append(capChan, call.cap)
            /\ sendFailed' = sendFailed
            /\ call' = [call EXCEPT !.stage = "recv"]
       ELSE /\ capChan' = capChan
            /\ sendFailed' = TRUE
            /\ call' = [call EXCEPT !.stage = "panicked"]
    /\ UNCHANGED <<vdf, out, txAlive, rxAlive, received, verdict>>
    /\ UNCHANGED <<workerVars, handler>>

\* receiver.recv() returned the worker's message: a proof sets self.upper_bound
EstimateRecv ==
    /\ call.op = "estimate"
    /\ call.stage = "recv"
    /\ out # <<>>
    /\ received' = Head(out)
    /\ out' = Tail(out)
    /\ call' = [call EXCEPT !.stage = "returned",
                            !.upper_bound = IF Head(out).kind = "Proof"
                                            THEN Head(out).output.iterations
                                            ELSE @]
    /\ UNCHANGED <<vdf, capChan, txAlive, rxAlive, capsSent, sendFailed, verdict>>
    /\ UNCHANGED <<workerVars, handler>>

EstimateSpec == EstimateInit /\ [][WorkerNext \/ EstimateSend \/ EstimateRecv]_vars

\* proof.validate() on the proof the caller holds
CallerValidate ==
    /\ received.kind = "Proof"
    /\ call = NoCall
    /\ call' = [op |-> "validate", ok |-> Validate(received)]
    /\ UNCHANGED <<vdf, capChan, out, txAlive, rxAlive, capsSent, sendFailed, received,
                   verdict>>
    /\ UNCHANGED <<workerVars, handler>>

ValidateInit == HeldProofInit(ArbitraryProofs \cup ZeroFieldProofs)

\* validate on arbitrary proofs, those with zero fields included
ValidateSpec == ValidateInit /\ [][CallerValidate]_vars

\* caller_sender.send(c), the worker's counter at that moment noted in the frame
CallerSendAt(c) ==
    /\ txAlive
    /\ capsSent < MaxCapSends
    /\ capsSent' = capsSent + 1
    /\ IF pc # "halted"
       THEN /\ capChan' = Append(capChan, c)
            /\ sendFailed' = sendFailed
            /\ call' = [op |-> "send", cap |-> c, at |-> iterations]
       ELSE /\ capChan' = capChan
            /\ sendFailed' = TRUE
            /\ call' = call
    /\ UNCHANGED <<vdf, out, txAlive, rxAlive, received, verdict>>
    /\ UNCHANGED <<workerVars, handler>>

\* the worker and a caller that sends caps
LatencySpec == Init /\ [][WorkerNext \/ \E c \in CapValues : CallerSendAt(c)]_vars

\* impl Ord for VDFResult: cmp compares the iteration counts
VDFResultCmp(a, b) ==
    IF a.iterations < b.iterations THEN "Less"
    ELSE IF a.iterations = b.iterations THEN "Equal"
    ELSE "Greater"

\* impl PartialEq for VDFResult
VDFResultEq(a, b) == a.result = b.result /\ a.iterations = b.iterations

\* a - b on usize: below zero the debug build panics and the release build wraps
UsizeSub(a, b) ==
    IF a >= b
    THEN {[ok |-> TRUE, val |-> a - b]}
    ELSE {[ok |-> FALSE, val |-> 0], [ok |-> TRUE, val |-> USIZE_MAX + 1 + a - b]}

\* abs_difference with the subtraction taken one way only
AbsDifferenceOneWay(a, b) == UsizeSub(a.iterations, b.iterations)

\* VDFProof::abs_difference on the outputs of self and other: its possible outcomes
AbsDifference(a, b) ==
    IF VDFResultCmp(a, b) = "Greater"
    THEN UsizeSub(a.iterations, b.iterations)
    ELSE UsizeSub(b.iterations, a.iterations)

\* the outputs of two proofs
Results == [result : 0..2, iterations : 0..MaxUpper]

\* the caller holds the outputs of two proofs; no worker runs
CompareInit ==
    /\ handler = PingHandlerNew
    /\ call \in [op : {"pair"}, a : Results, b : Results]
    /\ received = NoMsg
    /\ vdf = [modulus |-> 21, base |-> 1, upper_bound |-> 0, cap |-> 0]
    /\ result = 0
    /\ iterations = 0
    /\ pc = "halted"
    /\ pending = NoMsg
    /\ capSource = "none"
    /\ usedCap = 0
    /\ capChan = <<>>
    /\ out = <<>>
    /\ emitted = <<>>
    /\ logged = FALSE
    /\ polls = 0
    /\ txAlive = FALSE
    /\ rxAlive = FALSE
    /\ capsSent = 0
    /\ sendFailed = FALSE
    /\ verdict = "none"

\* a.cmp(&b)
CallerCmp ==
    /\ call.op = "pair"
    /\ call' = [op |-> "cmp", a |-> call.a, b |-> call.b,
                ordering |-> VDFResultCmp(call.a, call.b)]
    /\ UNCHANGED <<vdf, capChan, out, txAlive, rxAlive, capsSent, sendFailed, received,
                   verdict>>
    /\ UNCHANGED <<workerVars, handler>>

\* a == b
CallerEq ==
    /\ call.op = "pair"
    /\ call' = [op |-> "eq", a |-> call.a, b |-> call.b,
                equal |-> VDFResultEq(call.a, call.b)]
    /\ UNCHANGED <<vdf, capChan, out, txAlive, rxAlive, capsSent, sendFailed, received,
                   verdict>>
    /\ UNCHANGED <<workerVars, handler>>

\* a.abs_difference(&b) and b.abs_difference(&a)
CallerAbsDifference ==
    /\ call.op = "pair"
    /\ \E ab \in AbsDifference(call.a, call.b), ba \in AbsDifference(call.b, call.a) :
          call' = [op |-> "abs_difference", a |-> call.a, b |-> call.b,
                   ab |-> ab, ba |-> ba]
    /\ UNCHANGED <<vdf, capChan, out, txAlive, rxAlive, capsSent, sendFailed, received,
                   verdict>>
    /\ UNCHANGED <<workerVars, handler>>

CompareSpec == CompareInit /\ [][CallerCmp \/ CallerEq \/ CallerAbsDifference]_vars

\* PingConfig::new: max_failures
MAX_FAILURES == 1

\* what polling a future or the timer can give
Outcomes == {"Pending", "Ok", "Err"}

\* pending_errors.push_front(e), outbound left empty by take() or set to None
PushError(h, e) ==
    [h EXCEPT !.pending_errors = Append(@, e), !.outbound = "None", !.run = @ + 1]

\* the failure test closing at max_failures without the test failures > 1
CountFailureNoGrace(h) ==
    IF h.pending_errors = <<>> THEN [h EXCEPT !.ret = "continue"]
    ELSE LET n == h.failures + 1
             g == [h EXCEPT !.pending_errors = Tail(@), !.failures = n,
                            !.error = Head(h.pending_errors)]
         IN  IF n >= MAX_FAILURES THEN [g EXCEPT !.ret = "Close"]
             ELSE [g EXCEPT !.ret = "continue"]

\* head of the loop of poll: pending_errors.pop_back(), the counter, Close or Custom(Err)
CountFailure(h) ==
    IF h.pending_errors = <<>> THEN [h EXCEPT !.ret = "continue"]
    ELSE LET n == h.failures + 1
             g == [h EXCEPT !.pending_errors = Tail(@), !.failures = n,
                            !.error = Head(h.pending_errors)]
         IN  IF n > 1 \/ MAX_FAILURES > 1
             THEN IF n >= MAX_FAILURES
                  THEN [g EXCEPT !.ret = "Close"]
                  ELSE [g EXCEPT !.ret = "Failure"]
             ELSE [g EXCEPT !.ret = "continue"]

\* the loop of poll: the handlers it can leave behind, ret being the value returned
RECURSIVE PollLoop(_)
PollLoop(h) ==
    LET c == CountFailure(h)
    IN  IF c.ret # "continue" THEN {c}
        ELSE IF c.outbound = "Ping"
        THEN UNION { IF ping = "Ok"
                     THEN {[c EXCEPT !.failures = 0, !.run = 0, !.outbound = "Idle",
                                     !.ret = "PingSuccess"]}
                     ELSE IF ping = "Err"
                     THEN PollLoop(PushError(c, "PingError"))
                     ELSE UNION { IF timer # "Pending"
                                  THEN PollLoop(PushError(c, "Timeout"))
                                  ELSE {[c EXCEPT !.ret = "Pending"]} :
                                    timer \in Outcomes } :
                       ping \in Outcomes }
        ELSE IF c.outbound = "Idle"
        THEN UNION { IF timer = "Pending" THEN {[c EXCEPT !.ret = "Pending"]}
                     ELSE IF timer = "Ok" THEN PollLoop([c EXCEPT !.outbound = "Ping"])
                     ELSE {[c EXCEPT !.outbound = "None", !.ret = "Close",
                                     !.error = "TimerError"]} :
                       timer \in Outcomes }
        ELSE IF c.outbound = "OpenStream"
        THEN {[c EXCEPT !.ret = "Pending"]}
        ELSE {[c EXCEPT !.outbound = "OpenStream", !.ret = "OutboundSubstreamRequest"]}

\* PingHandler::poll: the inbound pong future first, then the loop
Poll(h) ==
    IF h.inbound = "Some"
    THEN UNION { IF inb = "Ok" THEN {[h EXCEPT !.ret = "Pong"]}
                 ELSE IF inb = "Err" THEN PollLoop([h EXCEPT !.inbound = "None"])
                 ELSE PollLoop(h) :
                   inb \in Outcomes }
    ELSE PollLoop(h)

\* a connection has been established: its handler is new, no session of the VDF runs
PingInit ==
    /\ handler = PingHandlerNew
    /\ call = NoCall
    /\ received = NoMsg
    /\ vdf = [modulus |-> 21, base |-> 1, upper_bound |-> 0, cap |-> 0]
    /\ result = 0
    /\ iterations = 0
    /\ pc = "halted"
    /\ pending = NoMsg
    /\ capSource = "none"
    /\ usedCap = 0
    /\ capChan = <<>>
    /\ out = <<>>
    /\ emitted = <<>>
    /\ logged = FALSE
    /\ polls = 0
    /\ txAlive = FALSE
    /\ rxAlive = FALSE
    /\ capsSent = 0
    /\ sendFailed = FALSE
    /\ verdict = "none"

\* the swarm polls the handler, until a poll has returned Close
PingPoll ==
    /\ handler.ret # "Close"
    /\ handler' \in Poll(handler)
    /\ UNCHANGED <<vdf, capChan, out, workerVars, callerVars>>

\* inject_fully_negotiated_outbound, answering an OutboundSubstreamRequest
InjectFullyNegotiatedOutbound ==
    /\ handler.ret # "Close"
    /\ handler.outbound = "OpenStream"
    /\ handler' = [handler EXCEPT !.outbound = "Ping"]
    /\ UNCHANGED <<vdf, capChan, out, workerVars, callerVars>>

\* inject_dial_upgrade_error, answering an OutboundSubstreamRequest
InjectDialUpgradeError(e) ==
    /\ handler.ret # "Close"
    /\ handler.outbound = "OpenStream"
    /\ handler' = PushError(handler, e)
    /\ UNCHANGED <<vdf, capChan, out, workerVars, callerVars>>

\* inject_fully_negotiated_inbound
InjectFullyNegotiatedInbound ==
    /\ handler.ret # "Close"
    /\ handler' = [handler EXCEPT !.inbound = "Some"]
    /\ UNCHANGED <<vdf, capChan, out, workerVars, callerVars>>

PingNext ==
    \/ PingPoll
    \/ InjectFullyNegotiatedOutbound
    \/ \E e \in {"Timeout", "DialError"} : InjectDialUpgradeError(e)
    \/ InjectFullyNegotiatedInbound

PingSpec == PingInit /\ [][PingNext]_vars

\* the lowest bit of an integer flipped
FlipLowestBit(x) == IF x % 2 = 0 THEN x + 1 ELSE x - 1

\* a peer alters the proof field of a proof that verified, and hands it over again
PeerTamper ==
    /\ received.kind = "Proof"
    /\ verdict = "true"
    /\ call = NoCall
    /\ call' = [op |-> "tamper", original |-> received]
    /\ received' = [received EXCEPT !.proof = FlipLowestBit(@)]
    /\ verdict' = "none"
    /\ UNCHANGED <<vdf, capChan, out, txAlive, rxAlive, capsSent, sendFailed>>
    /\ UNCHANGED <<workerVars, handler>>

\* the verifier on arbitrary proofs and on their tampered copies
TamperSpec == VerifyInit /\ [][CallerVerify \/ PeerTamper]_vars

---------------------------------------------------------------------------
(* Vocabulary of the properties *)

\* the safe primes below 100, listed: p and (p - 1) / 2 both prime
SafePrimeNumber(p) == p \in {5, 7, 11, 23, 47, 59, 83}

\* 2^n as a plain integer
RECURSIVE Pow2(_)
Pow2(n) == IF n = 0 THEN 1 ELSE 2 * Pow2(n - 1)

\* the prime factors of n
PrimeFactors(n) == {q \in 2..n : n % q = 0 /\ \A d \in 2..(q - 1) : q % d # 0}

\* a and b have no common divisor but 1
Coprime(a, b) == (a # 0 \/ b # 0) /\ \A d \in 2..(a + b) : ~(a % d = 0 /\ b % d = 0)

\* the worker has left its loop
Halted == pc \in {"done", "halted"}

\* the proofs the worker handed to worker_sender.send
EmittedProofs == {emitted[i] : i \in {j \in DOMAIN emitted : emitted[j].kind = "Proof"}}

---------------------------------------------------------------------------
(* C1 -- soundness round trip.  Every proof the worker emits with a cap    *)
(* that is a safe prime coprime to the modulus, whether it halted at the   *)
(* upper bound or on a received cap, makes VDFProof::verify return true.   *)
(* The code does not satisfy this: verify reduces iterations^2 modulo the  *)
(* cap where the constructed proof needs 2^iterations.                     *)
C1_SoundnessRoundTrip ==
    \A p \in EmittedProofs :
        (SafePrimeNumber(p.cap) /\ Gcd(p.modulus, p.cap) = 1) => Verify(p) = "true"

---------------------------------------------------------------------------
(* C2 -- exactly one outcome, safety part.  Under every interleaving of    *)
(* the caller's cap send with the worker's loop the worker hands at most   *)
(* one message to the proof channel, and once it has sent, it squares,     *)
(* polls and sends no more.                                                *)
C2_ExactlyOneOutcome ==
    [][ /\ Len(emitted') <= 1
        /\ (emitted # <<>> =>
               /\ emitted' = emitted
               /\ result' = result
               /\ iterations' = iterations
               /\ polls' = polls
               /\ pc' \in {"done", "halted"}) ]_vars

\* the worker has sent its one message while the caller's cap was in flight
C2_Witness ==
    /\ pc = "halted"
    /\ capSource = "received"
    /\ Len(emitted) = 1
    /\ capsSent = 1
    /\ iterations >= 2

---------------------------------------------------------------------------
(* C3 -- rejection of a received cap.  Whenever the worker takes from      *)
(* cap_in a value that is not a safe prime (0, 1, a composite such as 9, a *)
(* prime such as 13 whose half is composite) it builds InvalidCapError,    *)
(* sends it once, sends no proof and halts.                                *)
C3_ReceivedCapRejected ==
    (capSource = "received" /\ ~SafePrimeNumber(usedCap)) =>
        /\ pc \in {"send", "done", "halted"}
        /\ pending = InvalidCapError
        /\ EmittedProofs = {}
        /\ Len(emitted) = (IF Halted THEN 1 ELSE 0)
        /\ Halted => emitted = <<InvalidCapError>>

\* the worker consumed the composite 9 and halted on InvalidCapError
C3_Witness ==
    /\ capSource = "received"
    /\ usedCap = 9
    /\ pc = "halted"
    /\ emitted = <<InvalidCapError>>

---------------------------------------------------------------------------
(* C4 -- rejection of a preinstalled cap, as the claim states it.  A       *)
(* session built with with_cap(l), l non-zero and not a safe prime, never  *)
(* emits a proof, whatever the caller sends on cap_in and whenever.  (It   *)
(* is stated for the sessions with upper_bound >= 1, where the upper-bound *)
(* branch is reachable by counting.)                                       *)
C4_PreinstalledNeverProof ==
    (vdf.cap # 0 /\ ~SafePrimeNumber(vdf.cap) /\ vdf.upper_bound >= 1) =>
        EmittedProofs = {}

(* C4 -- as amended.  Such a session never finalizes a proof with the      *)
(* preinstalled cap: in the upper-bound branch it builds InvalidCapError.  *)
(* Every proof it emits comes from a safe prime taken from cap_in before   *)
(* the counter reached the upper bound, and carries that received cap.     *)
C4_PreinstalledRejectedAtBound ==
    (vdf.cap # 0 /\ ~SafePrimeNumber(vdf.cap)) =>
        /\ capSource = "preinstalled" => (pending = InvalidCapError /\ EmittedProofs = {})
        /\ \A p \in EmittedProofs :
              /\ capSource = "received"
              /\ p.cap = usedCap
              /\ p.cap # vdf.cap
              /\ SafePrimeNumber(p.cap)
              /\ p.output.iterations # vdf.upper_bound

\* the session with the composite 9 installed reached its bound and sent the error
C4_Witness ==
    /\ vdf.cap = 9
    /\ vdf.upper_bound >= 2
    /\ iterations = vdf.upper_bound
    /\ capSource = "preinstalled"
    /\ emitted = <<InvalidCapError>>

---------------------------------------------------------------------------
(* C5 -- a cap that shares a factor with the modulus is an invalid cap.    *)
(* Every proof the worker emits from a received or a preinstalled cap has  *)
(* gcd(modulus, cap) = 1.  The code does not satisfy this: it tests the    *)
(* cap for safe primality only.                                            *)
C5_EmittedCapCoprime ==
    \A p \in EmittedProofs :
        capSource \in {"received", "preinstalled"} => Gcd(p.modulus, p.cap) = 1

---------------------------------------------------------------------------
(* C6 -- iteration bound.  For every session, upper_bound = 0 included,    *)
(* and every moment at which a cap arrives, every emitted proof has        *)
(* 1 <= output.iterations <= upper_bound.  The code does not satisfy this  *)
(* for upper_bound = 0, where the counter passes the bound unnoticed.      *)
C6_IterationBound ==
    \A p \in EmittedProofs :
        1 <= p.output.iterations /\ p.output.iterations <= vdf.upper_bound

---------------------------------------------------------------------------
(* C7 -- precedence of the upper bound.  In the step the worker takes when *)
(* its counter equals upper_bound, it finalizes with the preinstalled cap, *)
(* or with a generated safe prime when none is installed, even if a cap is *)
(* pending on cap_in: the channel is left as it is, no poll is made, and   *)
(* the message built does not carry the pending cap as a received one.     *)
C7_UpperBoundPrecedence ==
    [][ (pc = "check" /\ iterations = vdf.upper_bound /\ pc' # pc) =>
            /\ pc' = "send"
            /\ capChan' = capChan
            /\ polls' = polls
            /\ capSource' = (IF vdf.cap = 0 THEN "generated" ELSE "preinstalled")
            /\ vdf.cap # 0 => usedCap' = vdf.cap
            /\ vdf.cap = 0 => SafePrimeNumber(usedCap')
            /\ pending'.kind = "Proof" => pending'.cap = usedCap' ]_vars

\* the bound was reached with a different cap pending, which stays in the channel
C7_Witness ==
    /\ pc = "halted"
    /\ iterations = vdf.upper_bound
    /\ capChan = <<11>>
    /\ capSource = "generated"
    /\ emitted # <<>>
    /\ emitted[1].kind = "Proof"
    /\ emitted[1].cap = 5

---------------------------------------------------------------------------
(* C8 -- upper-bound termination.  For every upper_bound >= 1 with no cap  *)
(* installed, if no cap is ever sent on cap_in, the worker eventually      *)
(* halts having emitted one proof whose iterations equals upper_bound and  *)
(* whose cap is a safe prime it generated itself.                          *)
C8_EmittedAtUpperBound ==
    /\ Halted
    /\ Len(emitted) = 1
    /\ emitted[1].kind = "Proof"
    /\ emitted[1].output.iterations = vdf.upper_bound
    /\ emitted[1].output.result = PowMod(vdf.base, Pow2(vdf.upper_bound), vdf.modulus)
    /\ capSource = "generated"
    /\ emitted[1].cap = usedCap
    /\ SafePrimeNumber(emitted[1].cap)

C8_UpperBoundTermination ==
    (vdf.upper_bound >= 1 /\ vdf.cap = 0) =>
        <>(capsSent > 0 \/ C8_EmittedAtUpperBound)

\* no cap was sent and the worker halted at the largest bound with its own cap
C8_Witness ==
    /\ capsSent = 0
    /\ vdf.cap = 0
    /\ vdf.upper_bound = MaxUpper
    /\ C8_EmittedAtUpperBound

---------------------------------------------------------------------------
(* C9 -- upper_bound = 0.  A worker started with upper_bound = 0           *)
(* terminates immediately: it does not go round the loop waiting for a     *)
(* cap, so it never squares a second time.  The code does not satisfy      *)
(* this: the counter is 1 at its first comparison with the bound, and the  *)
(* worker squares until a cap arrives or the counter reaches usize::MAX.   *)
C9_ZeroBoundHaltsAtOnce ==
    vdf.upper_bound = 0 => iterations <= 1

---------------------------------------------------------------------------
(* C10 -- structural bound of the verifier.  VDFProof::verify returns      *)
(* false for every proof whose proof field is >= modulus, modulus itself   *)
(* included, whatever the other fields are.  The code does not satisfy     *)
(* this: it rejects proof > modulus only.                                  *)
C10_VerifyRejectsProofNotBelowModulus ==
    (verdict # "none" /\ received.kind = "Proof" /\ received.proof >= received.modulus)
        => verdict = "false"

---------------------------------------------------------------------------
(* C11 -- zero fields are rejected without raising.  For every proof in    *)
(* which the modulus, the base or the cap is zero, VDFProof::verify        *)
(* returns false and does not panic.  The code does not satisfy this: it   *)
(* has no test of the fields, so a zero base goes through the equation and *)
(* a zero cap or modulus reaches a reduction modulo zero.                  *)
C11_ZeroFieldsRejected ==
    (verdict # "none" /\ received.kind = "Proof"
        /\ (received.modulus = 0 \/ received.base = 0 \/ received.cap = 0))
        => verdict = "false"

---------------------------------------------------------------------------
(* C12 -- tamper rejection, as the claim states it.  For every proof on    *)
(* which verify returns true, the proof that differs from it only by the   *)
(* lowest bit of its proof field makes verify return false.                *)
C12_TamperRejected ==
    (call.op = "tamper" /\ verdict # "none") => verdict = "false"

(* C12 -- as amended.  The tampered copy is rejected whenever the modulus  *)
(* has a prime factor q that does not divide the base and for which the    *)
(* cap is coprime to q - 1 (so that x -> x^cap is one-to-one modulo q).    *)
C12_Separated(p) ==
    \E q \in PrimeFactors(p.modulus) : p.base % q # 0 /\ Coprime(p.cap, q - 1)

C12_TamperRejectedWhenSeparated ==
    (call.op = "tamper" /\ verdict # "none" /\ C12_Separated(received))
        => verdict = "false"

\* a proof with a safe-prime cap verified, its tampered copy did not
C12_Witness ==
    /\ call.op = "tamper"
    /\ verdict = "false"
    /\ C12_Separated(received)
    /\ SafePrimeNumber(received.cap)
    /\ received.base = 2
    /\ received.proof # call.original.proof
    /\ received.proof < received.modulus

---------------------------------------------------------------------------
(* C13 -- determinism.  The proof a session emits is a function of its N,  *)
(* g, the iteration count T and the cap l alone: whatever the interleaving *)
(* with the caller, every field of an emitted proof equals the value of    *)
(* that function, so two sessions with the same (N, g, T, l) emit proofs   *)
(* that are equal field by field.  A worker that used its preinstalled cap *)
(* emitted at the iteration count its upper bound fixes, with that cap.    *)
C13_ProofOf(N, g, T, l) ==
    [kind |-> "Proof",
     modulus |-> N,
     base |-> g,
     output |-> [result |-> PowMod(g, Pow2(T), N), iterations |-> T],
     cap |-> l,
     proof |-> PowMod(g, Pow2(T) \div l, N)]

C13_Deterministic ==
    \A p \in EmittedProofs :
        /\ p = C13_ProofOf(vdf.modulus, vdf.base, p.output.iterations, p.cap)
        /\ capSource = "preinstalled" =>
              /\ p.cap = vdf.cap
              /\ p.output.iterations
                    = IF vdf.upper_bound = 0 THEN USIZE_MAX ELSE vdf.upper_bound

\* a worker with a preinstalled safe-prime cap ran to its upper bound and emitted
C13_Witness ==
    /\ Halted
    /\ capSource = "preinstalled"
    /\ SafePrimeNumber(vdf.cap)
    /\ vdf.upper_bound = MaxUpper
    /\ \E p \in EmittedProofs : p.output.iterations = vdf.upper_bound /\ p.proof # 1

---------------------------------------------------------------------------
(* C14 -- non-triviality.  For every base g # 1, every iteration count     *)
(* T >= 1 and every safe-prime cap, the emitted proof has proof # 1 and    *)
(* output.result # 1.  The code does not satisfy this: the constructor     *)
(* returns g^floor(2^T / l), which is 1 as long as 2^T < l.                *)
C14_NonTrivial ==
    \A p \in EmittedProofs :
        (p.base # 1 /\ p.output.iterations >= 1 /\ SafePrimeNumber(p.cap))
            => (p.proof # 1 /\ p.output.result # 1)

---------------------------------------------------------------------------
---------------------------------------------------------------------------
(* C16 -- calibration result.  estimate_upper_bound, called on a session   *)
(* with any prior upper_bound, returns with upper_bound equal to the       *)
(* iteration count at which the calibration worker consumed the cap sent   *)
(* after the sleep: the call does not panic, the cap sent is a safe prime, *)
(* and the worker's message is a proof built with that cap.  The code does *)
(* not satisfy this: the cap comes from new_prime and the worker runs with *)
(* the prior upper_bound.                                                  *)
C16_CalibrationResult ==
    call.op = "estimate" =>
        /\ call.stage # "panicked"
        /\ call.stage = "returned" =>
              /\ SafePrimeNumber(call.cap)
              /\ capSource = "received"
              /\ usedCap = call.cap
              /\ received.kind = "Proof"
              /\ call.upper_bound = iterations

---------------------------------------------------------------------------
(* C17 -- cancellation by drop.  If the caller drops its cap sender        *)
(* without ever sending a cap, the worker does not stop early and reports  *)
(* no error: once it has halted it has emitted exactly one message, a      *)
(* proof with iterations = upper_bound.  (Stated for sessions whose        *)
(* preinstalled cap, if any, is a safe prime.)  The code does not satisfy  *)
(* this for upper_bound = 0, where the worker halts at usize::MAX.         *)
C17_CancellationByDrop ==
    (~txAlive /\ capsSent = 0 /\ Halted
        /\ (vdf.cap = 0 \/ SafePrimeNumber(vdf.cap)))
        => /\ Len(emitted) = 1
           /\ emitted[1].kind = "Proof"
           /\ emitted[1].output.iterations = vdf.upper_bound
           /\ iterations = vdf.upper_bound

---------------------------------------------------------------------------
(* C18 -- receiver dropped.  If the caller has dropped the proof-output    *)
(* receiver when the worker sends its message (at the upper bound or on a  *)
(* cap), the worker does not panic: the failed send is logged, nothing is  *)
(* delivered, and the worker leaves its loop and halts.                    *)
C18_ReceiverDropped ==
    [][(pc = "send" /\ ~rxAlive /\ pc' # pc)
          => (pc' = "done" /\ logged' /\ out' = out /\ Len(emitted') = 1)]_vars

\* the worker has halted on a received cap after a send that failed
C18_Witness ==
    /\ ~rxAlive
    /\ pc = "halted"
    /\ logged
    /\ out = <<>>
    /\ Len(emitted) = 1
    /\ capSource = "received"

---------------------------------------------------------------------------
(* C19 -- structural validation.  For every proof, validate() returns true *)
(* if and only if the modulus is coprime to the base and coprime to the    *)
(* cap; the answer is a function of these three fields alone, so it does   *)
(* not depend on output or proof.                                          *)
C19_ValidateIffCoprime ==
    call.op = "validate" =>
        (call.ok <=> (Coprime(received.modulus, received.base)
                        /\ Coprime(received.modulus, received.cap)))

\* validate has answered false for a proof whose base is coprime to the modulus
C19_Witness ==
    /\ call.op = "validate"
    /\ ~call.ok
    /\ Coprime(received.modulus, received.base)
    /\ received.cap > 1
    /\ received.base > 1

---------------------------------------------------------------------------
(* C20 -- bounds.  Every proof the worker emits has 0 <= proof < N and     *)
(* 0 <= output.result < N, N being its modulus.                            *)
C20_Bounds ==
    \A p \in EmittedProofs :
        /\ 0 <= p.proof /\ p.proof < p.modulus
        /\ 0 <= p.output.result /\ p.output.result < p.modulus

\* a proof was emitted whose quotient floor(2^T / l) is not zero, with proof and result above 1
C20_Witness ==
    \E p \in EmittedProofs :
        /\ Pow2(p.output.iterations) \div p.cap >= 1
        /\ p.proof > 1
        /\ p.output.result > 1

---------------------------------------------------------------------------
(* C21 -- no partial iteration.  Wherever the worker tests the upper bound *)
(* or polls cap_in, and while it holds a message to send, its running      *)
(* value is g^(2^T) mod N for its current counter T; every emitted proof   *)
(* carries such a pair, and nothing reaches the caller that the worker has *)
(* not built in full before.                                               *)
C21_NoPartialIteration ==
    /\ pc \in {"check", "send", "done", "halted"} =>
          result = PowMod(vdf.base, Pow2(iterations), vdf.modulus)
    /\ \A p \in EmittedProofs :
          /\ p.output.result = PowMod(p.base, Pow2(p.output.iterations), p.modulus)
          /\ p.output.iterations >= 1
    /\ pc = "send" /\ pending.kind = "Proof" =>
          /\ pending.output = [result |-> result, iterations |-> iterations]
          /\ pending.proof = PowMod(vdf.base, Pow2(iterations) \div pending.cap, vdf.modulus)
    /\ \A i \in DOMAIN out : \E j \in DOMAIN emitted : out[i] = emitted[j]

\* a cap was received after several squarings and the proof built on it has been delivered
C21_Witness ==
    /\ capSource = "received"
    /\ iterations >= 2
    /\ vdf.base > 1
    /\ out # <<>>
    /\ out[1].kind = "Proof"
    /\ out[1].output.result # vdf.base

---------------------------------------------------------------------------
(* C22 -- bounded injection latency.  Once a cap has been placed on cap_in *)
(* while the worker's counter was T, the counter never exceeds T + 1: the  *)
(* worker halts with iterations <= T + 1 and never completes two further   *)
(* squarings with the cap pending.                                         *)
C22_BoundedInjectionLatency ==
    call.op = "send" =>
        /\ iterations <= call.at + 1
        /\ (capChan # <<>> /\ pc = "loop") => iterations = call.at

\* a cap placed at counter T >= 1 was consumed at T + 1 and the worker has halted
C22_Witness ==
    /\ call.op = "send"
    /\ call.at >= 1
    /\ Halted
    /\ capSource = "received"
    /\ usedCap = call.cap
    /\ iterations = call.at + 1

---------------------------------------------------------------------------
(* C23 -- loop invariant of the proof constructor.  For every cap the      *)
(* worker accepts as a safe prime, at every step of the loop of            *)
(* VDFProof::new the quotient b is 0 or 1 and the remainder r satisfies    *)
(* 0 <= r < cap.                                                           *)
C23_QuotientBitAndRemainder ==
    (call.op \in {"new", "returned"} /\ SafePrimeNumber(call.cap)) =>
        /\ call.b \in {0, 1}
        /\ 0 <= call.r /\ call.r < call.cap

\* the loop has made three steps or more with a safe-prime cap and its last quotient is 1
C23_Witness ==
    /\ call.op = "new"
    /\ SafePrimeNumber(call.cap)
    /\ call.i >= 3
    /\ call.b = 1
    /\ call.r > 1

---------------------------------------------------------------------------
(* C24 -- comparison and difference of results.  cmp orders two results by *)
(* their iterations only; eq holds iff result and iterations are both      *)
(* equal; a.abs_difference(b) and b.abs_difference(a) both return          *)
(* |a.iterations - b.iterations|, with no unsigned underflow.              *)
C24_Distance(m, n) == IF m >= n THEN m - n ELSE n - m

C24_CompareAndDifference ==
    /\ call.op = "cmp" =>
          /\ call.ordering = "Less" <=> call.a.iterations < call.b.iterations
          /\ call.ordering = "Equal" <=> call.a.iterations = call.b.iterations
          /\ call.ordering = "Greater" <=> call.a.iterations > call.b.iterations
    /\ call.op = "eq" => (call.equal <=> call.a = call.b)
    /\ call.op = "abs_difference" =>
          /\ call.ab.ok /\ call.ba.ok
          /\ call.ab.val = C24_Distance(call.a.iterations, call.b.iterations)
          /\ call.ba.val = call.ab.val

\* the difference was taken of a result with fewer iterations and one with more
C24_Witness ==
    /\ call.op = "abs_difference"
    /\ call.a.iterations < call.b.iterations
    /\ call.a.result > call.b.result
    /\ call.ab.val >= 2

---------------------------------------------------------------------------
(* C25 -- the handshake of estimate_upper_bound never fails.  Under every  *)
(* interleaving of the calibration worker, which runs with the session's   *)
(* current upper_bound and cap, and the sleeping caller, the send of the   *)
(* cap succeeds: the worker has not halted and dropped its receiver, and   *)
(* the unwrap on the send does not panic.  The code does not satisfy this: *)
(* the worker can reach its upper bound and end before the sleep is over.  *)
C25_HandshakeNeverFails ==
    call.op = "estimate" => (~sendFailed /\ call.stage \in {"sleep", "recv", "returned"})

---------------------------------------------------------------------------
(* C26 -- failure counting of PingHandler with max_failures = 1, as the    *)
(* claim states it.  poll returns Close only when the failure counter has  *)
(* reached 2, that is after two outbound ping failures with no successful  *)
(* ping between them.                                                      *)
C26_CloseOnlyAtTwoFailures ==
    handler.ret = "Close" => (handler.failures = 2 /\ handler.run >= 2)

(* C26 -- as amended.  poll returns Close when the failure counter has     *)
(* reached 2, after two outbound failures with no successful ping between  *)
(* them, or when the timer itself fails while the outbound substream is    *)
(* idle, whatever the counter.  A poll that takes the counter from 0 to 1  *)
(* returns a request for a new outbound substream, and after a successful  *)
(* ping the counter is 0.                                                  *)
C26_CloseAtTwoFailuresOrTimerError ==
    /\ [](handler.ret = "Close" =>
            \/ handler.error = "TimerError" /\ handler.outbound = "None"
            \/ /\ handler.failures = 2
               /\ handler.run >= 2
               /\ handler.error \in {"Timeout", "DialError", "PingError"})
    /\ [](handler.ret = "PingSuccess" => handler.failures = 0)
    /\ [][(handler.failures = 0 /\ handler'.failures = 1)
             => /\ handler'.ret = "OutboundSubstreamRequest"
                /\ handler'.outbound = "OpenStream"]_vars

\* two outbound failures in a row, the second a failed ping, and poll returned Close
C26_Witness ==
    /\ handler.ret = "Close"
    /\ handler.failures = 2
    /\ handler.run = 2
    /\ handler.error = "PingError"
    /\ handler.inbound = "Some"

=============================================================================
